---- MODULE Spec2Model ----
(***************************************************************************)
(* Model of retraigo/preprocess: the row-major typed-array Matrix          *)
(* container (src/unnamed/part_000, lines 43-384), the diagonal-scale      *)
(* operator multiplyDiags and the TfIdfTransformer                         *)
(* (src/feature/conversion/text/sparse/tf_idf_transformer.ts and           *)
(* src/unnamed/part_000, lines 1-42).                                      *)
(*                                                                         *)
(* Typed arrays live in a heap: a sequence of buffers, a buffer's index    *)
(* being its identity.  A Matrix instance holds the index of its buffer,   *)
(* so that two instances adopting the same typed array are two records     *)
(* naming one heap cell, as in the program.                                *)
(***************************************************************************)
EXTENDS Integers, Sequences, FiniteSets, TLC

VARIABLES
  heap,   \* the typed arrays: heap[b] is the array of identity b
  mats,   \* the Matrix instances, in order of construction
  gen,    \* the live rows()/cols() generator and its position
  tf,     \* the TfIdfTransformer
  last,   \* the last call: operation, error thrown, receiver, result, arguments
  hist    \* history of the transformer: how it was built, its last fit

vars == <<heap, mats, gen, tf, last, hist>>

(***************************************************************************)
(* Bounds of the model.                                                    *)
(***************************************************************************)
\* largest row count / column count of a matrix the caller builds
MaxDim == 2
\* largest number of calls in one run
MaxCalls == 2

(***************************************************************************)
(* Element values.  Finite values are integers.  The three non-finite      *)
(* doubles are integers no finite value of the model reaches.              *)
(***************************************************************************)
NaN == 9000001
PosInf == 9000002
NegInf == 9000003

IsFinite(v) == v \notin {NaN, PosInf, NegInf}

Min(a, b) == IF a < b THEN a ELSE b
Max(a, b) == IF a > b THEN a ELSE b
Abs(a) == IF a < 0 THEN 0 - a ELSE a
Sign(a) == IF a < 0 THEN 0 - 1 ELSE IF a > 0 THEN 1 ELSE 0

\* a + b on doubles
NumAdd(a, b) ==
  IF a = NaN \/ b = NaN THEN NaN
  ELSE IF (a = PosInf /\ b = NegInf) \/ (a = NegInf /\ b = PosInf) THEN NaN
  ELSE IF a = PosInf \/ b = PosInf THEN PosInf
  ELSE IF a = NegInf \/ b = NegInf THEN NegInf
  ELSE a + b

\* a * b on doubles
NumMul(a, b) ==
  IF a = NaN \/ b = NaN THEN NaN
  ELSE IF IsFinite(a) /\ IsFinite(b) THEN a * b
  ELSE LET sa == IF a = PosInf THEN 1 ELSE IF a = NegInf THEN 0 - 1 ELSE Sign(a)
           sb == IF b = PosInf THEN 1 ELSE IF b = NegInf THEN 0 - 1 ELSE Sign(b)
       IN IF sa * sb = 0 THEN NaN ELSE IF sa * sb > 0 THEN PosInf ELSE NegInf

(***************************************************************************)
(* Element kinds (DataType, part_000 lines 386-435).  The model carries    *)
(* one kind of each family: unsigned and signed bounded integers, a wide   *)
(* (bigint) integer and a double.                                          *)
(***************************************************************************)
DataType == {"u8", "i8", "i64", "f64"}

\* TypedArrayValueMapping: the kinds whose elements are bigint
IsBig(k) == k \in {"u64", "i64"}
IsFloat(k) == k \in {"f32", "f64"}
IsSigned(k) == k \in {"i8", "i16", "i32", "i64"}
\* typeof of an element of a typed array of kind k
Dom(k) == IF IsBig(k) THEN "bigint" ELSE "number"
\* storage width in bits of the bounded integer kinds of the model
Bits(k) == IF k \in {"u8", "i8"} THEN 8 ELSE 64

\* The value an element of kind k holds after `element = v` (v already of
\* the kind's domain).  Bounded integers wrap modulo 2^Bits and turn a
\* non-finite double into 0; doubles keep the value; the model's bigint
\* values stay far inside 64 bits, where the wrap is the identity.
ToStorage(k, v) ==
  IF IsFloat(k) \/ IsBig(k) THEN v
  ELSE IF ~IsFinite(v) THEN 0
  ELSE IF IsSigned(k)
       THEN ((v + 2^(Bits(k) - 1)) % 2^Bits(k)) - 2^(Bits(k) - 1)
       ELSE v % 2^Bits(k)

(***************************************************************************)
(* Typed-array primitives the Matrix code calls.                           *)
(***************************************************************************)
\* a heap cell: kind, contents, and (history) the operation that allocated
\* it and the Matrix instance it was read from
Buf(k, d, by, of) == [k |-> k, d |-> d, by |-> by, of |-> of]

Zeros(n) == [i \in 1..n |-> 0]

\* data[i]: an index outside the array reads undefined, which every
\* arithmetic use and every store into a number array turns into NaN
Get(d, i) == IF i >= 0 /\ i < Len(d) THEN d[i + 1] ELSE NaN

\* data[i] = v: an index outside the array is ignored
Put(k, d, i, v) ==
  IF i >= 0 /\ i < Len(d) THEN [d EXCEPT ![i + 1] = ToStorage(k, v)] ELSE d

\* relative index of TypedArray.prototype.slice
RelIdx(x, len) == IF x < 0 THEN Max(len + x, 0) ELSE Min(x, len)

\* data.slice(start, end); hasEnd = FALSE is end === undefined
TASlice(d, start, hasEnd, end) ==
  LET k == RelIdx(start, Len(d))
      f == IF hasEnd THEN RelIdx(end, Len(d)) ELSE Len(d)
  IN IF f > k THEN SubSeq(d, k + 1, f) ELSE <<>>

\* data.set(src, offset) throws RangeError when src does not fit
TASetFails(d, src, offset) == offset < 0 \/ Len(src) + offset > Len(d)

TASet(k, d, src, offset) ==
  [i \in 1..Len(d) |->
     IF i > offset /\ i <= offset + Len(src)
     THEN ToStorage(k, src[i - offset]) ELSE d[i]]

\* new TypedArray(n) throws RangeError for a negative length
TANewFails(n) == n < 0

Flat(rows) ==
  LET F[i \in 0..Len(rows)] == IF i = 0 THEN <<>> ELSE F[i - 1] \o rows[i]
  IN F[Len(rows)]

(***************************************************************************)
(* Matrix (part_000 lines 66-384)                                          *)
(***************************************************************************)
\* an instance; via/src are history: the operation that returned the
\* instance and the instance it was called on
Mat(k, r, c, b, mode) ==
  [dType |-> k, nRows |-> r, nCols |-> c, data |-> b, mode |-> mode,
   via |-> "new", src |-> 0]

NoMat == Mat("f64", 0, 0, 0, "none")

\* the result of a call: err = "" when it returned
Ret(err, h, v) == [err |-> err, h |-> h, v |-> v]

\* first argument of the constructor
ViewArg(b) == [tag |-> "view", buf |-> b]
TagArg(k) == [tag |-> "string", dType |-> k]
ArrayArg(rows) == [tag |-> "array", rows |-> rows]
LikeArg(b, shape, hasCols) ==
  [tag |-> "like", data |-> b, shape |-> shape, hasCols |-> hasCols]
OtherArg == [tag |-> "other"]

\* second argument of the constructor; hasCols = FALSE is shape[1] missing
Config(hasShape, shape, hasCols, hasDType, k) ==
  [hasShape |-> hasShape, shape |-> shape, hasCols |-> hasCols,
   hasDType |-> hasDType, dType |-> k]

ShapeConfig(r, c) == Config(TRUE, <<r, c>>, TRUE, FALSE, "f64")

\* constructor(data, config)
Matrix(h, arg, config) ==
  CASE arg.tag = "view" ->
         IF ~config.hasShape THEN Ret("IncompleteShape", h, NoMat)
         ELSE Ret("", h,
                  Mat(h[arg.buf].k, config.shape[1],
                      IF config.hasCols THEN config.shape[2]
                      ELSE Len(h[arg.buf].d) \div config.shape[1],
                      arg.buf, "wrap"))
    [] arg.tag = "string" ->
         IF ~config.hasShape THEN Ret("IncompleteShape", h, NoMat)
         ELSE IF ~config.hasCols THEN Ret("IncompleteShape", h, NoMat)
         ELSE IF TANewFails(config.shape[1] * config.shape[2])
              THEN Ret("RangeError", h, NoMat)
         ELSE Ret("",
                  Append(h, Buf(arg.dType,
                                Zeros(config.shape[1] * config.shape[2]),
                                "alloc", 0)),
                  Mat(arg.dType, config.shape[1], config.shape[2],
                      Len(h) + 1, "alloc"))
    [] arg.tag = "array" ->
         IF ~config.hasDType THEN Ret("NoDType", h, NoMat)
         ELSE IF Len(arg.rows) = 0 THEN Ret("TypeError", h, NoMat)
         ELSE Ret("",
                  Append(h, Buf(config.dType,
                                [i \in 1..Len(Flat(arg.rows)) |->
                                   ToStorage(config.dType, Flat(arg.rows)[i])],
                                "convert", 0)),
                  Mat(config.dType, Len(arg.rows), Len(arg.rows[1]),
                      Len(h) + 1, "convert"))
    [] arg.tag = "like" ->
         Ret("", h,
             Mat(h[arg.data].k, arg.shape[1],
                 IF arg.hasCols THEN arg.shape[2]
                 ELSE Len(h[arg.data].d) \div arg.shape[1],
                 arg.data, "like"))
    [] OTHER -> Ret("UnsupportedConstructorInput", h, NoMat)

\* get shape
shape(m) == <<m.nRows, m.nCols>>

\* the matrix reads outside its buffer somewhere in [0,nRows) x [0,nCols)
ReadsOutside(h, m) ==
  m.nRows > 0 /\ m.nCols > 0 /\ m.nRows * m.nCols > Len(h[m.data].d)

\* item(row, col)
item(h, m, r, c) == Get(h[m.data].d, r * m.nCols + c)

\* the array one step of cols() yields for column i
ColData(h, m, i) ==
  [j \in 1..m.nRows |->
     ToStorage(m.dType, Get(h[m.data].d, (j - 1) * m.nCols + i))]

\* the array one step of rows() yields for row i
RowData(h, m, i) == TASlice(h[m.data].d, i * m.nCols, TRUE, (i + 1) * m.nCols)

\* T placing column i at offset i * nCols instead of i * nRows
TColumnStride(h, ms, self) ==
  LET m == ms[self]
      n == m.nRows * m.nCols
      R[i \in 0..Max(m.nCols, 0)] ==
        IF i = 0 THEN Zeros(n)
        ELSE TASet(m.dType, R[i - 1], ColData(h, m, i - 1), (i - 1) * m.nCols)
      h2 == Append(h, Buf(m.dType, R[Max(m.nCols, 0)], "T", self))
      r == Matrix(h2, ViewArg(Len(h2)), ShapeConfig(m.nCols, m.nRows))
  IN IF TANewFails(n) THEN Ret("RangeError", h, NoMat)
     ELSE IF \E i \in 1..m.nCols :
               TASetFails(Zeros(n), ColData(h, m, i - 1), (i - 1) * m.nCols)
          THEN Ret("RangeError", h, NoMat)
     ELSE Ret(r.err, r.h, [r.v EXCEPT !.via = "T", !.src = self])

\* get T
T(h, ms, self) ==
  LET m == ms[self]
      n == m.nRows * m.nCols
      R[i \in 0..Max(m.nCols, 0)] ==
        IF i = 0 THEN Zeros(n)
        ELSE TASet(m.dType, R[i - 1], ColData(h, m, i - 1), (i - 1) * m.nRows)
      h2 == Append(h, Buf(m.dType, R[Max(m.nCols, 0)], "T", self))
      r == Matrix(h2, ViewArg(Len(h2)), ShapeConfig(m.nCols, m.nRows))
  IN IF TANewFails(n) THEN Ret("RangeError", h, NoMat)
     ELSE IF IsBig(m.dType) /\ ReadsOutside(h, m) THEN Ret("TypeError", h, NoMat)
     ELSE Ret(r.err, r.h, [r.v EXCEPT !.via = "T", !.src = self])

\* col(n)
col(h, ms, self, n) ==
  LET m == ms[self]
  IN IF TANewFails(m.nRows) THEN Ret("RangeError", h, 0)
     ELSE IF IsBig(m.dType)
             /\ \E j \in 1..m.nRows : Get(h[m.data].d, (j - 1) * m.nCols + n) = NaN
          THEN Ret("TypeError", h, 0)
     ELSE Ret("", Append(h, Buf(m.dType, ColData(h, m, n), "col", self)),
              Len(h) + 1)

\* row(n) returning a view of the matrix's own array (subarray for slice)
rowView(h, ms, self, n) ==
  LET m == ms[self]
  IN Ret("", [h EXCEPT ![m.data] = Buf(m.dType, h[m.data].d, "row", self)],
         m.data)

\* row(n)
row(h, ms, self, n) ==
  LET m == ms[self]
  IN Ret("", Append(h, Buf(m.dType, RowData(h, m, n), "row", self)), Len(h) + 1)

\* rowSum that never advances the row offset: it adds the first row nRows
\* times
rowSumFirstRow(h, ms, self) ==
  LET m == ms[self]
      d == h[m.data].d
      S[i \in 0..Max(m.nRows, 0)] ==
        IF i = 0 THEN Zeros(m.nCols)
        ELSE [j \in 1..m.nCols |->
                ToStorage(m.dType, NumAdd(S[i - 1][j], Get(d, j - 1)))]
  IN Ret("", Append(h, Buf(m.dType, S[Max(m.nRows, 0)], "rowSum", self)),
         Len(h) + 1)

\* rowSum(): the per-column totals over all rows
rowSum(h, ms, self) ==
  LET m == ms[self]
      d == h[m.data].d
      S[i \in 0..Max(m.nRows, 0)] ==
        IF i = 0 THEN Zeros(m.nCols)
        ELSE [j \in 1..m.nCols |->
                ToStorage(m.dType,
                          NumAdd(S[i - 1][j], Get(d, (i - 1) * m.nCols + j - 1)))]
  IN IF TANewFails(m.nCols) THEN Ret("RangeError", h, 0)
     ELSE IF IsBig(m.dType) /\ ReadsOutside(h, m) THEN Ret("TypeError", h, 0)
     ELSE Ret("", Append(h, Buf(m.dType, S[Max(m.nRows, 0)], "rowSum", self)),
              Len(h) + 1)

\* colSum(): the per-row totals over all columns
colSum(h, ms, self) ==
  LET m == ms[self]
      S[i \in 0..Max(m.nCols, 0)] ==
        IF i = 0 THEN Zeros(m.nRows)
        ELSE [j \in 1..m.nRows |->
                ToStorage(m.dType,
                          NumAdd(S[i - 1][j], item(h, m, j - 1, i - 1)))]
  IN IF TANewFails(m.nRows) THEN Ret("RangeError", h, 0)
     ELSE IF IsBig(m.dType) /\ ReadsOutside(h, m) THEN Ret("TypeError", h, 0)
     ELSE Ret("", Append(h, Buf(m.dType, S[Max(m.nCols, 0)], "colSum", self)),
              Len(h) + 1)

\* the divisor of rowMean/colMean for the count n:
\* typeof this.data[0] === "bigint" ? BigInt(n) : n
Divisor(h, m, n) ==
  [dom |-> IF Len(h[m.data].d) > 0 /\ IsBig(m.dType) THEN "bigint" ELSE "number",
   v |-> n]

\* truncating quotient (bigint division; a number quotient stored into an
\* integer array)
TruncDiv(a, b) == Sign(a) * Sign(b) * (Abs(a) \div Abs(b))

\* a / b on numbers, cut to its integer part: what an integer array stores
\* of the quotient, and the quotient itself where b divides a (the only
\* quotients the model takes on a floating kind)
NumDiv(a, b) ==
  IF a = NaN \/ b = NaN THEN NaN
  ELSE IF b = 0 THEN (IF a = 0 THEN NaN ELSE IF a > 0 THEN PosInf ELSE NegInf)
  ELSE IF ~IsFinite(a) THEN (IF b > 0 THEN a
                             ELSE IF a = PosInf THEN NegInf ELSE PosInf)
  ELSE TruncDiv(a, b)

\* the loop `sum[i] = sum[i] / divisor` of rowMean/colMean over the array
\* sum of kind k: throws on the first element when the domains differ, or
\* when a bigint is divided by 0n
MeanErr(k, sum, divisor) ==
  IF Len(sum) = 0 THEN ""
  ELSE IF Dom(k) # divisor.dom THEN "TypeError"
  ELSE IF IsBig(k) /\ divisor.v = 0 THEN "RangeError"
  ELSE ""

MeanData(k, sum, divisor) ==
  [i \in 1..Len(sum) |->
     IF IsBig(k) THEN TruncDiv(sum[i], divisor.v)
     ELSE ToStorage(k, NumDiv(sum[i], divisor.v))]

\* rowMean()
rowMean(h, ms, self) ==
  LET m == ms[self]
      s == rowSum(h, ms, self)
      divisor == Divisor(h, m, m.nRows)
      sum == s.h[s.v].d
  IN IF s.err # "" THEN s
     ELSE IF MeanErr(m.dType, sum, divisor) # ""
          THEN Ret(MeanErr(m.dType, sum, divisor), h, 0)
     ELSE Ret("", Append(h, Buf(m.dType, MeanData(m.dType, sum, divisor),
                                "rowMean", self)),
              Len(h) + 1)

\* colMean()
colMean(h, ms, self) ==
  LET m == ms[self]
      s == colSum(h, ms, self)
      divisor == Divisor(h, m, m.nCols)
      sum == s.h[s.v].d
  IN IF s.err # "" THEN s
     ELSE IF MeanErr(m.dType, sum, divisor) # ""
          THEN Ret(MeanErr(m.dType, sum, divisor), h, 0)
     ELSE Ret("", Append(h, Buf(m.dType, MeanData(m.dType, sum, divisor),
                                "colMean", self)),
              Len(h) + 1)

\* a value the caller passes: dom is its typeof
Val(dom, v) == [dom |-> dom, v |-> v]

\* setCell(row, col, val): the value is converted to the element kind
\* before the index is looked at, so a value of the other domain throws
\* whatever the index
setCell(h, ms, self, r, c, val) ==
  LET m == ms[self]
      b == h[m.data]
  IN IF val.dom # Dom(m.dType) THEN Ret("TypeError", h, 0)
     ELSE Ret("", [h EXCEPT ![m.data].d = Put(b.k, b.d, r * m.nCols + c, val.v)],
              0)

\* setAdd(row, col, val): data[i] += val
setAdd(h, ms, self, r, c, val) ==
  LET m == ms[self]
      b == h[m.data]
      i == r * m.nCols + c
  IN IF val.dom # Dom(m.dType) THEN Ret("TypeError", h, 0)
     ELSE IF IsBig(m.dType) /\ Get(b.d, i) = NaN THEN Ret("TypeError", h, 0)
     ELSE Ret("", [h EXCEPT ![m.data].d =
                     Put(b.k, b.d, i, NumAdd(Get(b.d, i), val.v))], 0)

\* setRow(row, val): this.data.set(val, row * nCols); val is an array of
\* values of one domain
setRow(h, ms, self, r, dom, val) ==
  LET m == ms[self]
      b == h[m.data]
  IN IF TASetFails(b.d, val, r * m.nCols) THEN Ret("RangeError", h, 0)
     ELSE IF Len(val) > 0 /\ dom # Dom(m.dType) THEN Ret("TypeError", h, 0)
     ELSE Ret("", [h EXCEPT ![m.data].d = TASet(b.k, b.d, val, r * m.nCols)], 0)

\* setCol(col, val): data[i * nCols + col] = val[i] for i < nRows, in
\* ascending order; the loop stops at the first store that throws (a value
\* of the other domain, or undefined stored into a bigint array) and keeps
\* the stores made before it
setCol(h, ms, self, c, dom, val) ==
  LET m == ms[self]
      b == h[m.data]
      n == Max(m.nRows, 0)
      Bad(i) == IF i < Len(val) THEN dom # Dom(m.dType) ELSE IsBig(m.dType)
      stop == IF \E i \in 0..(n - 1) : Bad(i)
              THEN CHOOSE i \in 0..(n - 1) :
                     Bad(i) /\ \A j \in 0..(i - 1) : ~Bad(j)
              ELSE n
      W[i \in 0..stop] ==
        IF i = 0 THEN b.d
        ELSE Put(b.k, W[i - 1], (i - 1) * m.nCols + c, Get(val, i - 1))
  IN Ret(IF stop < n THEN "TypeError" ELSE "",
         [h EXCEPT ![m.data].d = W[stop]], c)

\* filter(fn): keep is the set of rows fn returns true for
filter(h, ms, self, keep) ==
  LET m == ms[self]
      satisfying == {i \in 0..(m.nRows - 1) : i \in keep}
      n == Cardinality(satisfying)
      \* satisfying[i], in ascending order
      Nth[i \in 1..n] ==
        CHOOSE x \in satisfying : Cardinality({y \in satisfying : y < x}) = i - 1
      a == Matrix(h, TagArg(m.dType), ShapeConfig(n, m.nCols))
      F[i \in 0..n] ==
        IF i = 0 THEN a.h[a.v.data].d
        ELSE TASet(m.dType, F[i - 1], RowData(h, m, Nth[i]), (i - 1) * m.nCols)
  IN IF a.err # "" THEN a
     ELSE Ret("", [a.h EXCEPT ![a.v.data] = Buf(m.dType, F[n], "filter", self)],
              [a.v EXCEPT !.via = "filter", !.src = self])

\* slice wrapping the matrix's own array instead of a copy of the rows
sliceAlias(h, ms, self, start, hasEnd, end) ==
  LET m == ms[self]
      r == Matrix(h, ViewArg(m.data),
                  ShapeConfig(IF hasEnd /\ end # 0 THEN end - start
                              ELSE m.nRows - start, m.nCols))
  IN Ret(r.err, r.h, [r.v EXCEPT !.via = "slice", !.src = self])

\* slice(start = 0, end?); hasEnd = FALSE is end === undefined.  Both
\* bounds are tested for truthiness: `end ?` takes 0 for a missing end.
slice(h, ms, self, start, hasEnd, end) ==
  LET m == ms[self]
      endGiven == hasEnd /\ end # 0
      d == TASlice(h[m.data].d,
                   IF start # 0 THEN start * m.nCols ELSE 0,
                   endGiven, IF endGiven THEN end * m.nCols ELSE 0)
      h2 == Append(h, Buf(m.dType, d, "slice", self))
      r == Matrix(h2, ViewArg(Len(h2)),
                  ShapeConfig(IF endGiven THEN end - start ELSE m.nRows - start,
                              m.nCols))
  IN Ret(r.err, r.h, [r.v EXCEPT !.via = "slice", !.src = self])

(***************************************************************************)
(* multiplyDiags (tf_idf_transformer.ts lines 43-58)                       *)
(***************************************************************************)
\* multiplyDiags accumulating into the cell (setAdd for setCell)
multiplyDiagsAdd(h, ms, x, y) ==
  LET m == ms[x]
      h2 == Append(h, Buf("f64", Zeros(Len(h[m.data].d)), "multiplyDiags", x))
      res == Matrix(h2, ViewArg(Len(h2)), ShapeConfig(m.nRows, m.nCols))
      n == Max(m.nRows, 0) * Len(y)
      W[s \in 0..n] ==
        IF s = 0 THEN h2[Len(h2)].d
        ELSE LET i == (s - 1) \div Len(y)
                 j == (s - 1) % Len(y)
             IN Put("f64", W[s - 1], i * m.nCols + j,
                    NumAdd(Get(W[s - 1], i * m.nCols + j),
                           NumMul(item(h, m, i, j), y[j + 1])))
  IN Ret("", [h2 EXCEPT ![Len(h2)].d = W[n]],
         [res.v EXCEPT !.via = "multiplyDiags", !.src = x])

\* multiplyDiags(x, y): x a Matrix<Float64Array>, y the contents of a
\* Float64Array.  The result wraps (the Matrix of utils/matrix.ts takes the
\* shape itself as second argument) a fresh Float64Array of x.data.length
\* zeros under x.shape; the two loops then run i over the rows and j over
\* the whole of y, each step a res.setCell(i, j, x.item(i, j) * y[j]).
multiplyDiags(h, ms, x, y) ==
  LET m == ms[x]
      h2 == Append(h, Buf("f64", Zeros(Len(h[m.data].d)), "multiplyDiags", x))
      res == Matrix(h2, ViewArg(Len(h2)), ShapeConfig(shape(m)[1], shape(m)[2]))
      n == Max(m.nRows, 0) * Len(y)
      \* the buffer of res after the first s steps
      W[s \in 0..n] ==
        IF s = 0 THEN h2[Len(h2)].d
        ELSE LET i == (s - 1) \div Len(y)
                 j == (s - 1) % Len(y)
             IN Put("f64", W[s - 1], i * res.v.nCols + j,
                    NumMul(item(h, m, i, j), y[j + 1]))
  IN Ret("", [h2 EXCEPT ![Len(h2)].d = W[n]],
         [res.v EXCEPT !.via = "multiplyDiags", !.src = x])

(***************************************************************************)
(* TfIdfTransformer (part_000 lines 6-42, tf_idf_transformer.ts 4-40)      *)
(***************************************************************************)
\* 1000 * ln(n) for n = 1, 2, ...: the doubles fit computes are held in
\* thousandths
LnMilli == <<0, 693, 1099, 1386, 1609, 1792, 1946, 2079, 2197>>

\* Math.log(samples / Number(f)) + 1, in thousandths
IdfOf(samples, f) ==
  IF f = NaN THEN NaN
  ELSE IF ~IsFinite(f) THEN (IF samples = 0 THEN NaN ELSE NegInf)
  ELSE IF f = 0 THEN (IF samples = 0 THEN NaN ELSE PosInf)
  ELSE IF samples = 0 THEN NegInf
  ELSE IF f < 0 THEN NaN
  ELSE 1000 + LnMilli[samples] - LnMilli[f]

\* the transformer: idf is null (isNull) or the contents of a Float64Array
Transformer(isNull, idf) == [isNull |-> isNull, idf |-> idf]

\* constructor({ idf } = {}): this.idf = idf ?? null
TfIdfTransformer(given, idf) ==
  IF given THEN Transformer(FALSE, idf) ELSE Transformer(TRUE, <<>>)

\* fit(data): the idf vector it stores
fit(h, ms, data) ==
  LET samples == ms[data].nRows
      freq == rowSum(h, ms, data)
  IN IF freq.err # "" THEN Ret(freq.err, h, <<>>)
     ELSE Ret("", h,
              [i \in 1..Len(freq.h[freq.v].d) |->
                 IdfOf(samples, freq.h[freq.v].d[i])])

\* transform without the test for a missing idf
transformUnchecked(h, ms, t, data) == multiplyDiags(h, ms, data, t.idf)

\* transform(data)
transform(h, ms, t, data) ==
  IF t.isNull THEN Ret("Uninitialized", h, NoMat)
  ELSE multiplyDiags(h, ms, data, t.idf)

(***************************************************************************)
(* The calls as actions.                                                   *)
(***************************************************************************)
\* n counts the calls made so far
Last(op, err, m, res, args) ==
  [op |-> op, err |-> err, m |-> m, res |-> res, args |-> args,
   n |-> last.n + 1]

\* a call is made and recorded
Called(op, err, m, res, args) ==
  /\ last.n < MaxCalls
  /\ last' = Last(op, err, m, res, args)

NoGen == [kind |-> "none", m |-> 0, i |-> 0]

\* a call that returns a Matrix: the instance joins mats when no error
ReturnsMatrix(op, r, m, args) ==
  /\ last.n < MaxCalls
  /\ heap' = r.h
  /\ mats' = IF r.err = "" THEN Append(mats, r.v) ELSE mats
  /\ Called(op, r.err, m, IF r.err = "" THEN Len(mats) + 1 ELSE 0, args)
  /\ UNCHANGED <<gen, tf, hist>>

\* a call that returns a typed array (or nothing: res = 0)
ReturnsArray(op, r, m, args) ==
  /\ last.n < MaxCalls
  /\ heap' = r.h
  /\ Called(op, r.err, m, r.v, args)
  /\ UNCHANGED <<mats, gen, tf, hist>>

Dims == 0..MaxDim
\* what the caller writes
WriteVals == {9}
\* the arrays the caller passes to setRow/setCol: as long as the largest
\* row or column, one shorter, one longer
WriteArrs == {[i \in 1..n |-> 9] : n \in (MaxDim - 1)..(MaxDim + 1)}
\* the element kinds of the arrays of the aliasing machine
HeapKinds == {"f64"}

Matrices == 1..Len(mats)
Arrays == 1..Len(heap)
\* the contents of the buffer instance i holds
Cells(i) == heap[mats[i].data].d
WellFormed(i) == Len(Cells(i)) = mats[i].nRows * mats[i].nCols
\* the row and column indices of instance i
RowsOf(i) == 0..(mats[i].nRows - 1)
ColsOf(i) == 0..(mats[i].nCols - 1)

\* new Float64Array([1, 2, ..., n])
NewArray(k, n) ==
  /\ heap' = Append(heap, Buf(k, [i \in 1..n |-> i], "caller", 0))
  /\ Called("newArray", "", 0, Len(heap) + 1, <<n>>)
  /\ UNCHANGED <<mats, gen, tf, hist>>

\* array[i] = v on a typed array the caller holds
WriteArray(b, i, v) ==
  /\ heap' = [heap EXCEPT ![b].d = Put(heap[b].k, heap[b].d, i, v)]
  /\ Called("write", "", b, 0, <<i, v>>)
  /\ UNCHANGED <<mats, gen, tf, hist>>

\* new Matrix(array, { shape: [r, c] })
NewWrap(b, r, c) ==
  /\ ReturnsMatrix("new", Matrix(heap, ViewArg(b), ShapeConfig(r, c)), 0,
                   <<"wrap", b, r, c>>)

\* new Matrix(array, { shape: [r] }): the column count is derived.  The
\* caller passes a row count that divides the length.
NewWrapRows(b, r) ==
  /\ r > 0 /\ Len(heap[b].d) % r = 0
  /\ ReturnsMatrix("new",
                   Matrix(heap, ViewArg(b),
                          Config(TRUE, <<r, 0>>, FALSE, FALSE, "f64")),
                   0, <<"wrapRows", b, r>>)

\* new Matrix(dType, { shape: [r, c] })
NewAllocate(k, r, c) ==
  /\ ReturnsMatrix("new", Matrix(heap, TagArg(k), ShapeConfig(r, c)), 0,
                   <<"alloc", k, r, c>>)

\* the nested rows the caller converts: a full square, and rows of which
\* the second is shorter than the first
NestedRows ==
  {[i \in 1..MaxDim |-> [j \in 1..MaxDim |-> i * 10 + j]],
   <<<<11, 12>>, <<21>>>>}

\* new Matrix(rows, { dType })
NewConvert(rows, k) ==
  /\ ReturnsMatrix("new",
                   Matrix(heap, ArrayArg(rows),
                          Config(FALSE, <<0, 0>>, FALSE, TRUE, k)),
                   0, <<"convert", k>>)

\* new Matrix(m): the instance m is a MatrixLike, { data, shape }
NewLike(m) ==
  /\ ReturnsMatrix("new",
                   Matrix(heap, LikeArg(mats[m].data, shape(mats[m]), TRUE),
                          Config(FALSE, <<0, 0>>, FALSE, FALSE, "f64")),
                   0, <<"like", m>>)

\* the constructions that throw: no shape, no column count for a tag, no
\* dType for nested rows, an empty nested array, an unrecognised argument
NewFails(arg, config) ==
  /\ Matrix(heap, arg, config).err # ""
  /\ ReturnsMatrix("new", Matrix(heap, arg, config), 0, <<"fails", arg.tag>>)

BadConstructions ==
  {<<TagArg("f64"), Config(FALSE, <<0, 0>>, FALSE, FALSE, "f64")>>,
   <<TagArg("f64"), Config(TRUE, <<1, 0>>, FALSE, FALSE, "f64")>>,
   <<ArrayArg(<<<<1>>>>), Config(FALSE, <<0, 0>>, FALSE, FALSE, "f64")>>,
   <<ArrayArg(<<>>), Config(FALSE, <<0, 0>>, FALSE, TRUE, "f64")>>,
   <<OtherArg, Config(FALSE, <<0, 0>>, FALSE, FALSE, "f64")>>}
    \cup {<<ViewArg(b), Config(FALSE, <<0, 0>>, FALSE, FALSE, "f64")>> :
            b \in Arrays}

\* m.T
GetT(m) ==
  /\ ReturnsMatrix("T", T(heap, mats, m), m, <<>>)

\* m.slice(start, end) and, with hasEnd = FALSE, m.slice(start)
CallSlice(m, start, hasEnd, end) ==
  /\ ReturnsMatrix("slice", slice(heap, mats, m, start, hasEnd, end), m,
                   <<start, hasEnd, end>>)

\* m.filter(fn), fn true on the rows of keep
CallFilter(m, keep) ==
  /\ ReturnsMatrix("filter", filter(heap, mats, m, keep), m, <<keep>>)

\* m.row(n)
CallRow(m, n) ==
  /\ ReturnsArray("row", row(heap, mats, m, n), m, <<n>>)

\* m.col(n)
CallCol(m, n) ==
  /\ ReturnsArray("col", col(heap, mats, m, n), m, <<n>>)

\* m.rows() / m.cols(): a fresh generator, positioned before the first
\* row / column; nothing is read until it is advanced
CallRowsCols(kind, m) ==
  /\ gen' = [kind |-> kind, m |-> m, i |-> 0]
  /\ Called(kind, "", m, 0, <<>>)
  /\ UNCHANGED <<heap, mats, tf, hist>>

\* generator.next(): yields a copy of the row / column at the position, as
\* the matrix is now, or finishes
GenNext ==
  /\ last.n < MaxCalls
  /\ gen.kind # "none"
  /\ LET m == mats[gen.m]
         n == IF gen.kind = "rows" THEN m.nRows ELSE m.nCols
     IN IF gen.i < n
        THEN IF gen.kind = "cols" /\ TANewFails(m.nRows)
             THEN /\ gen' = NoGen
                  /\ Called("next", "RangeError", gen.m, 0, <<gen.i>>)
                  /\ heap' = heap
             ELSE /\ gen' = [gen EXCEPT !.i = gen.i + 1]
                  /\ heap' = Append(heap,
                                    Buf(m.dType,
                                        IF gen.kind = "rows"
                                        THEN RowData(heap, m, gen.i)
                                        ELSE ColData(heap, m, gen.i),
                                        gen.kind, gen.m))
                  /\ Called("next", "", gen.m, Len(heap) + 1, <<gen.i>>)
        ELSE /\ gen' = NoGen
             /\ heap' = heap
             /\ Called("next", "", gen.m, 0, <<gen.i>>)
  /\ UNCHANGED <<mats, tf, hist>>

\* m.setCell(r, c, v)
CallSetCell(m, r, c, val) ==
  ReturnsArray("setCell", setCell(heap, mats, m, r, c, val), m, <<r, c>>)

\* m.setAdd(r, c, v)
CallSetAdd(m, r, c, val) ==
  ReturnsArray("setAdd", setAdd(heap, mats, m, r, c, val), m, <<r, c>>)

\* m.setRow(r, values)
CallSetRow(m, r, dom, val) ==
  ReturnsArray("setRow", setRow(heap, mats, m, r, dom, val), m, <<r, Len(val)>>)

\* m.setCol(c, values)
CallSetCol(m, c, dom, val) ==
  ReturnsArray("setCol", setCol(heap, mats, m, c, dom, val), m, <<c, Len(val)>>)

(***************************************************************************)
(* The aliasing machine: the caller makes typed arrays, builds Matrix      *)
(* instances in the four modes, derives rows, columns and matrices, and    *)
(* writes through every handle it holds.                                   *)
(***************************************************************************)
NoTransformer == [isNull |-> TRUE, idf |-> <<>>]
\* given: the constructor was passed an idf (kept in idf); fitted: fit has
\* been called, last with the matrix of shape `shape` and contents d
NoHist == [given |-> FALSE, idf |-> <<>>, fitted |-> FALSE,
           shape |-> <<0, 0>>, d |-> <<>>]

\* the shapes of the matrix the run starts from: square, one row, no row,
\* no column
InitShapes ==
  {<<MaxDim, MaxDim>>, <<1, MaxDim>>, <<0, MaxDim>>, <<MaxDim, 0>>}

\* the caller has made the typed array [1, ..., r * c] and wrapped it as an
\* r x c matrix
Init ==
  /\ \E sh \in InitShapes :
       /\ heap = <<Buf("f64", [i \in 1..(sh[1] * sh[2]) |-> i], "caller", 0)>>
       /\ mats = <<Matrix(heap, ViewArg(1), ShapeConfig(sh[1], sh[2])).v>>
  /\ gen = NoGen
  /\ tf = NoTransformer
  /\ hist = NoHist
  /\ last = [op |-> "init", err |-> "", m |-> 0, res |-> 0, args |-> <<>>,
             n |-> 0]

\* the slices the caller asks for: inside the rows, an end of 0, an end
\* past the last row, an end before the start
SliceArgs ==
  {<<0, 1>>, <<1, MaxDim>>, <<0, 0>>, <<0, MaxDim + 1>>, <<2, 1>>}
\* the shapes the caller wraps an array under or allocates
Shapes == {<<1, 1>>, <<1, MaxDim>>, <<MaxDim, MaxDim>>}
\* the first and the last index below n
Ends(n) == {i \in {0, n - 1} : i >= 0}

Construct ==
  \/ \E k \in HeapKinds : NewArray(k, MaxDim)
  \/ \E b \in Arrays, sh \in Shapes : NewWrap(b, sh[1], sh[2])
  \/ \E b \in Arrays : NewWrapRows(b, MaxDim)
  \/ \E k \in HeapKinds, sh \in Shapes : NewAllocate(k, sh[1], sh[2])
  \/ \E rows \in NestedRows, k \in HeapKinds : NewConvert(rows, k)
  \/ \E m \in Matrices : NewLike(m)
  \/ \E a \in BadConstructions : NewFails(a[1], a[2])

Derive ==
  \/ \E m \in Matrices : GetT(m)
  \/ \E m \in Matrices, a \in SliceArgs : CallSlice(m, a[1], TRUE, a[2])
  \/ \E m \in Matrices : CallSlice(m, 1, FALSE, 0)
  \/ \E m \in Matrices, keep \in {{0}, Dims} : CallFilter(m, keep)
  \/ \E m \in Matrices : \E n \in Ends(mats[m].nRows) : CallRow(m, n)
  \/ \E m \in Matrices : \E n \in Ends(mats[m].nCols) : CallCol(m, n)
  \/ \E m \in Matrices, kind \in {"rows", "cols"} : CallRowsCols(kind, m)
  \/ GenNext

Mutate ==
  \/ \E b \in Arrays : \E i \in Ends(Len(heap[b].d)), v \in WriteVals :
       WriteArray(b, i, v)
  \/ \E m \in Matrices :
       \E r \in Ends(mats[m].nRows), c \in Ends(mats[m].nCols), v \in WriteVals :
         \/ CallSetCell(m, r, c, Val(Dom(mats[m].dType), v))
         \/ CallSetAdd(m, r, c, Val(Dom(mats[m].dType), v))
  \/ \E m \in Matrices : \E r \in Ends(mats[m].nRows), val \in WriteArrs :
       CallSetRow(m, r, Dom(mats[m].dType), val)
  \/ \E m \in Matrices : \E c \in Ends(mats[m].nCols), val \in WriteArrs :
       CallSetCol(m, c, Dom(mats[m].dType), val)

Next == Construct \/ Derive \/ Mutate

Spec == Init /\ [][Next]_vars

(***************************************************************************)
(* Properties of the aliasing machine.                                     *)
(***************************************************************************)
Range(f) == {f[i] : i \in DOMAIN f}
SetterOps == {"setCell", "setAdd", "setRow", "setCol"}
\* the calls that return an array read from a matrix, and those that
\* return a matrix read from a matrix
CopyOps == {"row", "col", "rows", "cols"}
MatOps == {"T", "slice", "filter"}
\* the step is a setter call on instance i / a write to the array b
WroteMatrix(i) == last'.op \in SetterOps /\ last'.m = i
WroteArray(b) == last'.op = "write" /\ last'.m = b

\* C1: every Matrix instance, however constructed or returned, holds a
\* buffer of exactly nRows * nCols elements.
C1_BufferLength == \A i \in Matrices : WellFormed(i)

C3_NoSharedBuffer ==
  [][\A i \in Matrices, j \in Matrices :
       i # j /\ WroteMatrix(i) => Cells(j)' = Cells(j)]_vars

\* the later built of the two instances was built by the caller from an
\* existing array: in Wrap mode or as a MatrixLike
Adopted(i, j) ==
  mats[Max(i, j)].via = "new" /\ mats[Max(i, j)].mode \in {"wrap", "like"}

\* C3 amended: two instances hold the same array only when the later one
\* was built by the caller in Wrap or MatrixLike mode, and only then does a
\* setter call on one change a cell of the other; an instance built in
\* Allocate or Convert mode or returned by T, slice or filter holds an
\* array no earlier instance holds.
C3_SharedOnlyByAdoption ==
  [][\A i \in Matrices, j \in Matrices :
       i # j =>
         /\ mats[i].data = mats[j].data => Adopted(i, j)
         /\ WroteMatrix(i) /\ Cells(j)' # Cells(j) => Adopted(i, j)]_vars

\* a setter call on an instance has changed the array it shares with an
\* instance built from it, while a slice or transpose of it exists
C3_Witness ==
  \E i \in Matrices, j \in Matrices :
    /\ i # j /\ mats[i].data = mats[j].data
    /\ last.op \in SetterOps /\ last.err = "" /\ last.m = i
    /\ \E v \in WriteVals : v \in Range(Cells(j))

(***************************************************************************)
(* The operations machine: one call on a matrix whose buffer has           *)
(* nRows * nCols elements, of every kind and shape and with every          *)
(* contents drawn from the sample values; T may be taken of the result of  *)
(* T.                                                                      *)
(***************************************************************************)
\* the sample element values of a kind: the ends of the range of the
\* bounded integers, so that sums wrap
SampleVals(k) ==
  CASE k = "u8" -> {1, 255}
    [] k = "i8" -> {0 - 128, 127}
    [] k = "i64" -> {0 - 3, 5}
    [] OTHER -> {2, 3}

\* the vectors multiplyDiags is given: every length up to one more than
\* the largest column count
DiagVectors ==
  UNION {[1..n -> {1, 5}] : n \in 0..(MaxDim + 1)}

InitOps ==
  /\ \E k \in DataType, r \in Dims, c \in Dims :
       \E d \in [1..(r * c) -> SampleVals(k)] :
         /\ heap = <<Buf(k, d, "caller", 0)>>
         /\ mats = <<Matrix(heap, ViewArg(1), ShapeConfig(r, c)).v>>
  /\ gen = NoGen
  /\ tf = NoTransformer
  /\ hist = NoHist
  /\ last = [op |-> "init", err |-> "", m |-> 0, res |-> 0, args |-> <<>>,
             n |-> 0]

\* m.rowSum(), m.colSum()
CallRowSum(m) == ReturnsArray("rowSum", rowSum(heap, mats, m), m, <<>>)
CallColSum(m) == ReturnsArray("colSum", colSum(heap, mats, m), m, <<>>)

\* the quotients of a mean the model can hold: any on an integer kind, the
\* exact ones and those by zero on a floating kind
MeanHeld(k, sum, n) ==
  IF IsFloat(k) /\ n # 0 THEN \A i \in 1..Len(sum) : sum[i] % n = 0 ELSE TRUE

\* m.rowMean()
CallRowMean(m) ==
  /\ MeanHeld(mats[m].dType, rowSum(heap, mats, m).h[Len(heap) + 1].d,
              mats[m].nRows)
  /\ ReturnsArray("rowMean", rowMean(heap, mats, m), m, <<>>)

\* m.colMean()
CallColMean(m) ==
  /\ MeanHeld(mats[m].dType, colSum(heap, mats, m).h[Len(heap) + 1].d,
              mats[m].nCols)
  /\ ReturnsArray("colMean", colMean(heap, mats, m), m, <<>>)

\* multiplyDiags(x, y) on a Matrix<Float64Array>; the call records y and
\* the contents of x before it
CallMultiplyDiags(x, y) ==
  /\ mats[x].dType = "f64"
  /\ ReturnsMatrix("multiplyDiags", multiplyDiags(heap, mats, x, y), x,
                   <<y, Cells(x)>>)

First == last.op = "init"

OpsT ==
  \/ First /\ GetT(1)
  \/ last.op = "T" /\ last.n = 1 /\ last.err = "" /\ GetT(2)

OpsSlice ==
  /\ First
  /\ \/ \E s \in 0..(MaxDim + 1), e \in 0..(MaxDim + 1) : CallSlice(1, s, TRUE, e)
     \/ \E s \in 0..(MaxDim + 1) : CallSlice(1, s, FALSE, 0)

OpsReduce ==
  /\ First
  /\ \/ CallRowSum(1)
     \/ CallColSum(1)
     \/ CallRowMean(1)
     \/ CallColMean(1)

OpsMultiplyDiags == First /\ \E y \in DiagVectors : CallMultiplyDiags(1, y)

\* setRow/setCol with arrays of every length up to one more than the
\* largest row or column
OpsSet ==
  /\ First
  /\ \E n \in 0..(MaxDim + 1) :
       LET val == [i \in 1..n |-> 9]
       IN \/ \E r \in RowsOf(1) : CallSetRow(1, r, Dom(mats[1].dType), val)
          \/ \E c \in ColsOf(1) : CallSetCol(1, c, Dom(mats[1].dType), val)

NextOps == OpsT \/ OpsSlice \/ OpsReduce \/ OpsMultiplyDiags \/ OpsSet

SpecOps == InitOps /\ [][NextOps]_vars

(***************************************************************************)
(* Properties of the operations machine.  Instance 1 is the matrix the     *)
(* call was made on.                                                       *)
(***************************************************************************)
SeqSum(d) ==
  LET S[i \in 0..Len(d)] == IF i = 0 THEN 0 ELSE S[i - 1] + d[i]
  IN S[Len(d)]

\* the sum of the elements of d in the addition of kind k
WrapSum(k, d) == ToStorage(k, SeqSum(d))

\* C5: for y at least as long as x has columns, multiplyDiags(x, y) returns
\* a new matrix of the shape of x with result[i][j] = x[i][j] * y[j]; the
\* entries of y past the last column change no cell, and x is as before.
C5_DiagonalScale ==
  last.op = "multiplyDiags" /\ Len(last.args[1]) >= mats[1].nCols =>
    /\ last.err = ""
    /\ mats[last.res].data # mats[1].data
    /\ shape(mats[last.res]) = shape(mats[1])
    /\ WellFormed(last.res)
    /\ \A i \in RowsOf(1), j \in ColsOf(1) :
         item(heap, mats[last.res], i, j)
           = item(heap, mats[1], i, j) * last.args[1][j + 1]
    /\ Cells(1) = last.args[2]

\* y is longer than a row of x, x has several rows, and the extra entry of
\* y differs from the first
C5_Witness ==
  /\ last.op = "multiplyDiags" /\ last.err = ""
  /\ mats[1].nRows >= 2 /\ mats[1].nCols >= 1
  /\ Len(last.args[1]) > mats[1].nCols
  /\ last.args[1][mats[1].nCols + 1] # last.args[1][1]

\* C6: for 0 <= start <= end <= nRows, slice(start, end) returns end - start
\* rows of nCols columns, row k being row start + k of the matrix; without
\* end it is slice(start, nRows).
C6_SliceRows ==
  last.op = "slice" =>
    LET start == last.args[1]
        end == IF last.args[2] THEN last.args[3] ELSE mats[1].nRows
    IN 0 <= start /\ start <= end /\ end <= mats[1].nRows =>
         /\ last.err = ""
         /\ mats[last.res].nRows = end - start
         /\ mats[last.res].nCols = mats[1].nCols
         /\ \A k \in 0..(end - start - 1) :
              RowData(heap, mats[last.res], k) = RowData(heap, mats[1], start + k)

\* C7: setRow with an array whose length is not nCols, and setCol with an
\* array whose length is not nRows, throw.
C7_ShapeMismatch ==
  /\ last.op = "setRow" /\ last.args[2] # mats[1].nCols => last.err # ""
  /\ last.op = "setCol" /\ last.args[2] # mats[1].nRows => last.err # ""

\* C8: m.T is a new nCols x nRows matrix of the kind of m with
\* T[c][r] = m[r][c], for every shape, and m.T.T has the shape and the
\* elements of m.
C8_Transpose ==
  last.op = "T" =>
    /\ last.err = ""
    /\ mats[last.res].data # mats[last.m].data
    /\ mats[last.res].dType = mats[last.m].dType
    /\ shape(mats[last.res]) = <<mats[last.m].nCols, mats[last.m].nRows>>
    /\ WellFormed(last.res)
    /\ \A r \in RowsOf(last.m), c \in ColsOf(last.m) :
         item(heap, mats[last.res], c, r) = item(heap, mats[last.m], r, c)
    /\ last.n = 2 =>
         /\ shape(mats[3]) = shape(mats[1])
         /\ Cells(3) = Cells(1)

\* the transpose of the transpose of a matrix that is not square and holds
\* two different values
C8_Witness ==
  /\ last.op = "T" /\ last.n = 2 /\ last.err = ""
  /\ mats[1].nRows >= 1 /\ mats[1].nCols >= 1
  /\ mats[1].nRows # mats[1].nCols
  /\ Cardinality(Range(Cells(1))) = 2

\* C9: on an integer kind, rowSum has nCols entries and colSum has nRows,
\* the entries of either add up, in the wrapping addition of the kind, to
\* the sum of all elements, and with no row or no column every entry is 0.
C9_ReductionSums ==
  last.op \in {"rowSum", "colSum"} /\ ~IsFloat(mats[1].dType) =>
    /\ last.err = ""
    /\ Len(heap[last.res].d)
         = (IF last.op = "rowSum" THEN mats[1].nCols ELSE mats[1].nRows)
    /\ WrapSum(mats[1].dType, heap[last.res].d)
         = WrapSum(mats[1].dType, Cells(1))
    /\ mats[1].nRows = 0 \/ mats[1].nCols = 0 =>
         \A i \in 1..Len(heap[last.res].d) : heap[last.res].d[i] = 0

\* rowSum of a u8 matrix of several rows and columns whose elements add up
\* past 255
C9_Witness ==
  /\ last.op = "rowSum" /\ last.err = "" /\ mats[1].dType = "u8"
  /\ mats[1].nRows >= 2 /\ mats[1].nCols >= 2
  /\ SeqSum(Cells(1)) > 255
  /\ Cardinality(Range(Cells(1))) = 2

\* C10: rowMean and colMean on a wide kind divide every entry of the sum by
\* a bigint count for every shape, the shapes with an empty buffer
\* included, and a zero count throws the division by zero of bigint
\* (RangeError), not the mixing of bigint and number (TypeError).
C10_WideDivisor ==
  last.op \in {"rowMean", "colMean"} /\ IsBig(mats[1].dType) =>
    LET count == IF last.op = "rowMean" THEN mats[1].nRows ELSE mats[1].nCols
        other == IF last.op = "rowMean" THEN mats[1].nCols ELSE mats[1].nRows
    IN other > 0 =>
         /\ Divisor(heap, mats[1], count).dom = "bigint"
         /\ last.err # "TypeError"
         /\ count = 0 => last.err = "RangeError"

(***************************************************************************)
(* The transformer machine: a TfIdfTransformer, built with or without an   *)
(* idf, on which the caller calls fit and transform in any order, each     *)
(* time with a term-frequency matrix of its own.                           *)
(***************************************************************************)
\* the term-frequency matrices of the caller: every shape, filled with
\* zeros, with ones, or with counts that differ from cell to cell
TfData ==
  {[shape |-> <<r, c>>, d |-> [p \in 1..(r * c) |-> (a * p + b) % 3]] :
     r \in Dims, c \in Dims, a \in {0, 1}, b \in {0, 1}}

\* the idf vectors given to the constructor, in thousandths
CtorIdfs == {[j \in 1..MaxDim |-> 1000 + 500 * j]}

\* the heap and the instance of a matrix x of the caller
TfHeap(x) == <<Buf("f64", x.d, "caller", 0)>>
TfMats(x) ==
  <<Matrix(TfHeap(x), ViewArg(1), ShapeConfig(x.shape[1], x.shape[2])).v>>

\* what a returned matrix is: its shape and its elements
Value(r) == [shape |-> shape(r.v), d |-> r.h[r.v.data].d]
NoValue == [shape |-> <<0, 0>>, d |-> <<>>]

InitTf ==
  /\ heap = <<>>
  /\ mats = <<>>
  /\ gen = NoGen
  /\ \E given \in BOOLEAN, idf \in CtorIdfs :
       /\ tf = TfIdfTransformer(given, idf)
       /\ hist = [NoHist EXCEPT !.given = given,
                                !.idf = IF given THEN idf ELSE <<>>]
  /\ last = [op |-> "init", err |-> "", m |-> 0, res |-> 0, args |-> <<>>,
             n |-> 0]

\* t.fit(x)
CallFit(x) ==
  LET r == fit(TfHeap(x), TfMats(x), 1)
  IN /\ tf' = IF r.err = "" THEN Transformer(FALSE, r.v) ELSE tf
     /\ hist' = [hist EXCEPT !.fitted = TRUE, !.shape = x.shape, !.d = x.d]
     /\ last' = [op |-> "fit", err |-> r.err, m |-> 0, res |-> 0,
                 args |-> <<x>>, n |-> 0]
     /\ UNCHANGED <<heap, mats, gen>>

\* t.transform(x); res = 1 when a matrix is returned, and args[2] is it
CallTransform(x) ==
  LET r == transform(TfHeap(x), TfMats(x), tf, 1)
  IN /\ last' = [op |-> "transform", err |-> r.err, m |-> 0,
                 res |-> IF r.err = "" THEN 1 ELSE 0,
                 args |-> <<x, IF r.err = "" THEN Value(r) ELSE NoValue>>,
                 n |-> 0]
     /\ UNCHANGED <<heap, mats, gen, tf, hist>>

NextTf ==
  \/ \E x \in TfData : CallFit(x)
  \/ \E x \in TfData : CallTransform(x)

SpecTf == InitTf /\ [][NextTf]_vars

\* the idf a fit on the matrix x computes: ln(nRows / rowSum[j]) + 1
IdfFor(x) ==
  [j \in 1..x.shape[2] |->
     IdfOf(x.shape[1], SeqSum([i \in 1..x.shape[1] |->
                                  x.d[(i - 1) * x.shape[2] + j]]))]

\* x scaled column by column by y, for y covering the columns of x
Scaled(x, y) ==
  [shape |-> x.shape,
   d |-> [p \in 1..Len(x.d) |-> NumMul(x.d[p], y[((p - 1) % x.shape[2]) + 1])]]

\* C4 as stated: transform succeeds only after a fit on the transformer;
\* with no earlier fit it throws Uninitialized and returns no matrix, and
\* after one it returns the matrix scaled by the idf of the latest fit.
C4_TransformNeedsFit ==
  last.op = "transform" =>
    IF hist.fitted
    THEN /\ last.err = ""
         /\ last.args[1].shape[2] <= hist.shape[2] =>
              last.args[2] = Scaled(last.args[1],
                                    IdfFor([shape |-> hist.shape, d |-> hist.d]))
    ELSE last.err = "Uninitialized" /\ last.res = 0

\* C4 amended: transform succeeds only when the transformer holds an idf,
\* from an earlier fit or from its constructor; with neither it throws
\* Uninitialized and returns no matrix; after a fit it returns the matrix
\* scaled by the idf of the latest fit, and before any fit that of the
\* constructor.
C4_TransformNeedsIdf ==
  last.op = "transform" =>
    IF hist.fitted
    THEN /\ last.err = ""
         /\ last.res = 1
         /\ last.args[1].shape[2] <= hist.shape[2] =>
              last.args[2] = Scaled(last.args[1],
                                    IdfFor([shape |-> hist.shape, d |-> hist.d]))
    ELSE IF hist.given
    THEN /\ last.err = ""
         /\ last.res = 1
         /\ last.args[1].shape[2] <= Len(hist.idf) =>
              last.args[2] = Scaled(last.args[1], hist.idf)
    ELSE last.err = "Uninitialized" /\ last.res = 0 /\ last.args[2] = NoValue

\* a transform, after a fit on a matrix of several rows and columns, of a
\* matrix of the same shape, returning a finite scaled count
C4_Witness ==
  /\ last.op = "transform" /\ last.err = "" /\ hist.fitted
  /\ hist.shape = <<MaxDim, MaxDim>> /\ last.args[1].shape = hist.shape
  /\ \E p \in 1..Len(last.args[2].d) :
       IsFinite(last.args[2].d[p]) /\ last.args[2].d[p] > 0

====
